---- MODULE Spec2Model ----
(***************************************************************************)
(* pigmap block images: the atlas of hexagonal block sprites, the lookup   *)
(* table from block id/data to sprite offset, and the opacity and          *)
(* transparency flags (src/blockimages.h).                                 *)
(*                                                                         *)
(* The atlas img is held cell by cell: img.cells[o][dy * rectsize + dx] is *)
(* the alpha of the pixel (r.x + dx, r.y + dy) of img, r = getRect(o).     *)
(* Only alphas are held; colours play no part in what is checked here.     *)
(***************************************************************************)
EXTENDS Integers, Sequences, FiniteSets, TLC

\* ------------------------------------------------------------------ sizes

\* #define NUMBLOCKIMAGES 715
NUMBLOCKIMAGES == 715

\* largest block size parameter B explored
MaxB == 2

\* block images per row of img
RowLength == 16

\* int blockOffsets[256 * 16]
NumBlockIDs == 256
NumBlockData == 16

\* ---------------------------------------------------------------- catalog

\* block image offsets listed for terrain.png
StockOffsets == 0..463

\* the Buildcraft offsets starting a hundred too low
BCOffsets_low == (400..444) \cup (555..577)

\* block image offsets listed under "Buildcraft Blocks"
BCOffsets == (500..544) \cup (555..577)

\* block image offsets listed under "Industrial-Craft 2 Blocks"
ICOffsets == 600..719

\* offsets listed as UNUSED
UnusedOffsets ==
    {48, 68, 69, 228, 538, 539} \cup (88..91) \cup (104..109) \cup (123..126)
        \cup (149..152) \cup (232..239)

\* every offset the catalog names
CatalogOffsets == StockOffsets \cup BCOffsets \cup ICOffsets

\* --------------------------------------------------------------- geometry

\* hexagon shape within the 4B x 4B rectangle: rows 0..B-1 widen by 4 pixels
\* a row from 2 pixels, rows B..3B-1 are full, the last B rows mirror the first
InHexagon(b, x, y) ==
    LET yy == IF y < 2 * b THEN y ELSE 4 * b - 1 - y
        half == IF yy < b THEN 2 * yy + 1 ELSE 2 * b
    IN  /\ x >= 2 * b - half
        /\ x < 2 * b + half

\* pixel indices (dy * 4B + dx) of a block image
PixelsOf(b) == 0..(16 * b * b - 1)

\* the hexagon of every block size explored, pixel index by pixel index
HexagonMask ==
    [b \in 1..MaxB |->
        [p \in PixelsOf(b) |-> InHexagon(b, p % (4 * b), p \div (4 * b))]]

\* pixel index p lies inside the hexagon
InHex(b, p) == HexagonMask[b][p]

\* pixel indices inside the hexagon
HexagonOf(b) == {p \in PixelsOf(b) : InHex(b, p)}

\* ----------------------------------------------------------------- images

\* a block image whose hexagon holds alpha pat[1] at its first pixel and
\* pat[2] elsewhere, and whose pixels outside the hexagon hold alpha pat[3]
PatternSprite(b, pat) ==
    [p \in PixelsOf(b) |->
        IF InHex(b, p)
            THEN (IF p = 2 * b - 1 THEN pat[1] ELSE pat[2])
            ELSE pat[3]]

\* the dummy block image: fully transparent
BlankSprite(b) == [p \in PixelsOf(b) |-> 0]

\* number of rows of block images in img
NumRows == (NUMBLOCKIMAGES + RowLength - 1) \div RowLength

\* size of img for block size b
ExpectedW(b) == 4 * b * RowLength
ExpectedH(b) == 4 * b * NumRows

\* the cells of an image of the expected size
AtlasCells == 0..(RowLength * NumRows - 1)

\* RGBAImage before create: no pixels
EmptyImage == [w |-> 0, h |-> 0, cells |-> << >>]

\* ---------------------------------------------------------------- inputs

\* blocks-B.png is a sequence: empty when the file is absent, else the image
NoFile == << >>

\* alpha patterns <<first hexagon pixel, other hexagon pixels, outside>>
Patterns ==
    { <<0, 0, 0>>, <<255, 255, 0>>, <<9, 0, 0>>, <<10, 0, 0>>,
      <<245, 255, 0>>, <<246, 255, 0>>, <<128, 255, 0>>,
      <<255, 255, 200>>, <<0, 0, 200>>, <<9, 246, 5>> }

\* the pattern of an opaque texture
OpaquePattern == <<255, 255, 0>>

\* the block image whose texture (or whose cell of blocks-B.png) holds the
\* chosen pattern
ProbeOffsets == {0, 1, 500, 714}

VARIABLES
    B,              \* block size parameter passed to create
    pc,             \* position within create
    rectsize,       \* BlockImages::rectsize
    img,            \* BlockImages::img
    blockOffsets,   \* BlockImages::blockOffsets
    opacity,        \* BlockImages::opacity
    transparency,   \* BlockImages::transparency
    blocksfile,     \* blocks-B.png in imgpath
    terrain,        \* terrain.png, fire.png, endportal.png are readable
    bcTex,          \* Buildcraft's block_textures.png was supplied
    icTex,          \* the IC2 texture files were supplied
    probe,          \* offset whose texture or cell holds pat
    pat,            \* the alpha pattern at probe
    recipeFails,    \* painting probe's block image from its texture fails
    painted,        \* construct has painted img from the textures
    builds,         \* how many times create has been called
    first,          \* what the first call of create left behind
    jobs,           \* block images being painted into img by rectangle
    canvas,         \* one block image: the faces painted on each pixel
    columns         \* texture columns painted so far on each face

vars == <<B, pc, rectsize, img, blockOffsets, opacity, transparency, blocksfile,
          terrain, bcTex, icTex, probe, pat, recipeFails, painted,
          builds, first, jobs, canvas, columns>>

inputs == <<B, terrain, bcTex, icTex, probe, pat, recipeFails>>

\* the variables of the other specifications, idle during create
others == <<jobs, canvas, columns>>

\* ------------------------------------------------------------- BlockImages

\* int getOffset(uint8_t blockID, uint8_t blockData) const
getOffset(blockID, blockData) == blockOffsets[blockID * 16 + blockData]

\* isOpaque reading the other flag vector
isOpaque_fromTransparency(offset) == transparency[offset]

\* bool isOpaque(int offset) const
isOpaque(offset) == opacity[offset]

\* bool isTransparent(int offset) const
isTransparent(offset) == transparency[offset]

\* getRect with row and column exchanged
getRect_transposed(offset) ==
    [x |-> (offset \div 16) * rectsize, y |-> (offset % 16) * rectsize,
     w |-> rectsize, h |-> rectsize]

\* getRect with rows of 15 block images across and 16 down
getRect_wrap15(offset) ==
    [x |-> (offset % 15) * rectsize, y |-> (offset \div 16) * rectsize,
     w |-> rectsize, h |-> rectsize]

\* ImageRect getRect(int offset) const
getRect(offset) ==
    [x |-> (offset % 16) * rectsize, y |-> (offset \div 16) * rectsize,
     w |-> rectsize, h |-> rectsize]

\* the static mapping from block id/data to block image offset; ids it does
\* not list are unrecognized and point at the dummy block image
CatalogEntry(blockID, blockData) ==
    CASE blockID = 1 -> 1                                    \* stone
      [] blockID = 2 -> 2                                    \* grass
      [] blockID = 3 -> 3                                    \* dirt
      [] blockID = 4 -> 4                                    \* cobblestone
      [] blockID = 7 -> 7                                    \* bedrock
      [] blockID = 20 -> 28                                  \* glass
      [] blockID = 35 -> IF blockData = 0 THEN 29 ELSE 203 + blockData  \* wool
      [] blockID = 152 -> 525                                \* Autoworkbench
      [] blockID = 160 -> 518                                \* frame
      [] blockID = 230 -> 639                                \* ReinforcedGlass
      [] blockID = 231 -> 640                                \* ReinforcedStone
      [] blockID = 249 -> 671                                \* CopperOre
      [] OTHER -> 0

\* void setOffsets()
setOffsets ==
    [i \in 0..(NumBlockIDs * NumBlockData - 1) |->
        CatalogEntry(i \div NumBlockData, i % NumBlockData)]

\* block images painted by construct, constructBC and constructIC
StockPainted == StockOffsets \ ({0} \cup UnusedOffsets)
BCPainted == BCOffsets \ UnusedOffsets
ICPainted == ICOffsets \ UnusedOffsets

\* the block image painted for offset o: probe's texture holds the pattern
\* pat (painting leaves the area outside the hexagon transparent), a failing
\* recipe leaves the dummy, every other texture is opaque
PaintedSprite(o) ==
    IF o = probe
        THEN (IF recipeFails THEN BlankSprite(B)
              ELSE PatternSprite(B, <<pat[1], pat[2], 0>>))
        ELSE PatternSprite(B, OpaquePattern)

\* img with the block images of the offsets in set painted
Paint(im, set) ==
    LET opq == PatternSprite(B, OpaquePattern)
        prb == PaintedSprite(probe)
    IN  [im EXCEPT !.cells =
            [c \in DOMAIN im.cells |->
                IF c \in set THEN (IF c = probe THEN prb ELSE opq)
                ELSE im.cells[c]]]

\* the thresholds taken inclusive
RetouchAlpha_inclusive(a) == IF a <= 10 THEN 0 ELSE IF a >= 245 THEN 255 ELSE a

\* the alphas between the thresholds stretched over 0..255
RetouchAlpha_stretch(a) ==
    IF a < 10 THEN 0 ELSE IF a > 245 THEN 255 ELSE ((a - 10) * 255) \div 235

\* alphas < 10 are set to 0, alphas > 245 are set to 255
RetouchAlpha(a) == IF a < 10 THEN 0 ELSE IF a > 245 THEN 255 ELSE a

\* void retouchAlphas(int B): over the hexagon of every block image
retouchAlphas(im) ==
    [im EXCEPT !.cells =
        [c \in DOMAIN im.cells |->
            IF c < NUMBLOCKIMAGES
                THEN [p \in DOMAIN im.cells[c] |->
                        IF InHex(B, p) THEN RetouchAlpha(im.cells[c][p])
                        ELSE im.cells[c][p]]
                ELSE im.cells[c]]]

\* void checkOpacityAndTransparency(int B): the flags of one block image
AllHexagon(im, o, a) ==
    \A p \in PixelsOf(B) : InHex(B, p) => im.cells[o][p] = a

\* the opacity flags taken over the whole 4B x 4B rectangle
checkOpacity_wholeRect(im) ==
    [o \in 0..(NUMBLOCKIMAGES - 1) |->
        \A p \in PixelsOf(B) : im.cells[o][p] = 255]

checkOpacity(im) == [o \in 0..(NUMBLOCKIMAGES - 1) |-> AllHexagon(im, o, 255)]

checkTransparency(im) == [o \in 0..(NUMBLOCKIMAGES - 1) |-> AllHexagon(im, o, 0)]

\* ------------------------------------------------------------ blocks-B.png

\* blocks-B.png as a build from complete opaque textures writes it, with the
\* cell of probe edited to hold pat
GoodFile(b, pr, pt) ==
    LET opq == PatternSprite(b, OpaquePattern)
        blank == BlankSprite(b)
        edited == PatternSprite(b, pt)
    IN  [w |-> ExpectedW(b), h |-> ExpectedH(b),
         cells |-> [c \in AtlasCells |->
                     IF c = pr THEN edited
                     ELSE IF c \in StockPainted \cup BCPainted \cup ICPainted
                         THEN opq ELSE blank]]

\* blocks-B.png of another size: one row of block images short
BadFile(b) ==
    LET blank == BlankSprite(b)
    IN  [w |-> ExpectedW(b), h |-> ExpectedH(b) - 4 * b,
         cells |-> [c \in 0..(RowLength * (NumRows - 1) - 1) |-> blank]]

\* ------------------------------------------------------------------ create

\* The runs explored: every combination of present and absent files with
\* opaque textures, and every pattern at every probe with all textures there.
Init ==
    /\ B \in 1..MaxB
    /\ \/ /\ terrain \in BOOLEAN
          /\ bcTex \in BOOLEAN
          /\ icTex \in BOOLEAN
          /\ recipeFails \in BOOLEAN
          /\ probe = 1
          /\ pat = OpaquePattern
          /\ blocksfile \in {NoFile, <<BadFile(B)>>, <<GoodFile(B, probe, pat)>>}
       \/ /\ terrain = TRUE
          /\ bcTex = TRUE
          /\ icTex = TRUE
          /\ recipeFails = FALSE
          /\ probe \in ProbeOffsets
          /\ pat \in Patterns
          /\ blocksfile \in {NoFile, <<GoodFile(B, probe, pat)>>}
    /\ pc = "create"
    /\ rectsize = 0
    /\ img = EmptyImage
    /\ blockOffsets = << >>
    /\ opacity = << >>
    /\ transparency = << >>
    /\ painted = FALSE
    /\ builds = 1
    /\ first = << >>
    /\ jobs = << >>
    /\ canvas = << >>
    /\ columns = << >>

\* create: rectsize = 4*B; setOffsets()
CreateBegin ==
    /\ pc = "create"
    /\ rectsize' = 4 * B
    /\ blockOffsets' = setOffsets
    /\ pc' = "readPNG"
    /\ UNCHANGED <<img, opacity, transparency, blocksfile, painted, inputs,
                   builds, first, others>>

\* ReadBlocksFile giving up on a blocks-B.png of another size
ReadBlocksFile_strict ==
    /\ pc = "readPNG"
    /\ IF blocksfile = NoFile
          THEN /\ img' = img
               /\ pc' = "construct"
          ELSE IF /\ blocksfile[1].w = ExpectedW(B)
                  /\ blocksfile[1].h = ExpectedH(B)
              THEN /\ img' = blocksfile[1]
                   /\ pc' = "retouch"
              ELSE /\ img' = img
                   /\ pc' = "failed"
    /\ UNCHANGED <<rectsize, blockOffsets, opacity, transparency, blocksfile,
                   painted, inputs, builds, first, others>>

\* create: look for blocks-B.png; use it when it has the size for B
ReadBlocksFile ==
    /\ pc = "readPNG"
    /\ IF /\ blocksfile # NoFile
          /\ blocksfile[1].w = ExpectedW(B)
          /\ blocksfile[1].h = ExpectedH(B)
          THEN /\ img' = blocksfile[1]
               /\ pc' = "retouch"
          ELSE /\ img' = img
               /\ pc' = "construct"
    /\ UNCHANGED <<rectsize, blockOffsets, opacity, transparency, blocksfile,
                   painted, inputs, builds, first, others>>

\* construct: build the block images from terrain.png; create fails without it
Construct ==
    /\ pc = "construct"
    /\ IF terrain
          THEN /\ img' = Paint([w |-> ExpectedW(B), h |-> ExpectedH(B),
                                cells |-> [c \in AtlasCells |-> BlankSprite(B)]],
                               StockPainted)
               /\ painted' = TRUE
               /\ pc' = "constructBC"
          ELSE /\ img' = img
               /\ painted' = painted
               /\ pc' = "failed"
    /\ UNCHANGED <<rectsize, blockOffsets, opacity, transparency, blocksfile,
                   inputs, builds, first, others>>

\* ConstructBC failing the build when the texture is not there
ConstructBC_fatal ==
    /\ pc = "constructBC"
    /\ img' = IF bcTex THEN Paint(img, BCPainted) ELSE img
    /\ pc' = IF bcTex THEN "constructIC" ELSE "failed"
    /\ UNCHANGED <<rectsize, blockOffsets, opacity, transparency, blocksfile,
                   painted, inputs, builds, first, others>>

\* constructBC: paint the Buildcraft block images when their texture is there
ConstructBC ==
    /\ pc = "constructBC"
    /\ img' = IF bcTex THEN Paint(img, BCPainted) ELSE img
    /\ pc' = "constructIC"
    /\ UNCHANGED <<rectsize, blockOffsets, opacity, transparency, blocksfile,
                   painted, inputs, builds, first, others>>

\* constructIC: paint the IC2 block images when their textures are there
ConstructIC ==
    /\ pc = "constructIC"
    /\ img' = IF icTex THEN Paint(img, ICPainted) ELSE img
    /\ pc' = "writePNG"
    /\ UNCHANGED <<rectsize, blockOffsets, opacity, transparency, blocksfile,
                   painted, inputs, builds, first, others>>

\* WriteBlocksFile saving only the NUMBLOCKIMAGES block images the flags cover
WriteBlocksFile_cropped ==
    /\ pc = "writePNG"
    /\ blocksfile' = <<[img EXCEPT !.cells =
                           [c \in DOMAIN img.cells |->
                               IF c < NUMBLOCKIMAGES THEN img.cells[c]
                                                     ELSE BlankSprite(B)]]>>
    /\ pc' = "retouch"
    /\ UNCHANGED <<rectsize, img, blockOffsets, opacity, transparency, painted,
                   inputs, builds, first, others>>

\* create: write the new blocks-B.png
WriteBlocksFile ==
    /\ pc = "writePNG"
    /\ blocksfile' = <<img>>
    /\ pc' = "retouch"
    /\ UNCHANGED <<rectsize, img, blockOffsets, opacity, transparency, painted,
                   inputs, builds, first, others>>

\* create: retouchAlphas(B)
RetouchAlphas ==
    /\ pc = "retouch"
    /\ img' = retouchAlphas(img)
    /\ pc' = "check"
    /\ UNCHANGED <<rectsize, blockOffsets, opacity, transparency, blocksfile,
                   painted, inputs, builds, first, others>>

\* create: checkOpacityAndTransparency(B); return true
CheckOpacityAndTransparency ==
    /\ pc = "check"
    /\ opacity' = checkOpacity(img)
    /\ transparency' = checkTransparency(img)
    /\ pc' = "done"
    /\ UNCHANGED <<rectsize, img, blockOffsets, blocksfile, painted, inputs,
                   builds, first, others>>

Next ==
    \/ CreateBegin
    \/ ReadBlocksFile
    \/ Construct
    \/ ConstructBC
    \/ ConstructIC
    \/ WriteBlocksFile
    \/ RetouchAlphas
    \/ CheckOpacityAndTransparency

Spec == Init /\ [][Next]_vars

\* ------------------------------------------------------------ create, twice

\* textures whose alphas retouchAlphas changes, or leaves translucent
TwicePatterns == { <<246, 255, 0>>, <<128, 255, 0>>, <<9, 246, 5>> }

\* the first run: terrain.png is there, the IC2 textures may be missing, and
\* blocks-B.png is absent, of another size, or right-sized
TwiceInit ==
    /\ B \in 1..MaxB
    /\ terrain = TRUE
    /\ bcTex = TRUE
    /\ icTex \in BOOLEAN
    /\ recipeFails \in BOOLEAN
    /\ probe = NUMBLOCKIMAGES - 1
    /\ pat \in TwicePatterns
    /\ blocksfile \in {NoFile, <<BadFile(B)>>, <<GoodFile(B, probe, pat)>>}
    /\ pc = "create"
    /\ rectsize = 0
    /\ img = EmptyImage
    /\ blockOffsets = << >>
    /\ opacity = << >>
    /\ transparency = << >>
    /\ painted = FALSE
    /\ builds = 1
    /\ first = << >>
    /\ jobs = << >>
    /\ canvas = << >>
    /\ columns = << >>

\* what a finished create leaves in the BlockImages object
Built ==
    [img |-> img, blockOffsets |-> blockOffsets, opacity |-> opacity,
     transparency |-> transparency, painted |-> painted]

\* a later run calls create on a new BlockImages with the same B and the same
\* textures; imgpath holds the blocks-B.png the first run left there
CreateAgain ==
    /\ pc = "done"
    /\ builds = 1
    /\ first' = <<Built>>
    /\ builds' = 2
    /\ pc' = "create"
    /\ rectsize' = 0
    /\ img' = EmptyImage
    /\ blockOffsets' = << >>
    /\ opacity' = << >>
    /\ transparency' = << >>
    /\ painted' = FALSE
    /\ UNCHANGED <<blocksfile, inputs, others>>

TwiceNext ==
    \/ Next
    \/ CreateAgain

SpecTwice == TwiceInit /\ [][TwiceNext]_vars

\* ----------------------------------------------------- retouchAlphas alone

\* alphas tried beside the first hexagon pixel's, inside and outside the hexagon
SnapInsideAlphas == {0, 10, 245, 255}
SnapOutsideAlphas == {0, 5, 250}

\* retouchAlphas run twice over an image of one block image, whose first
\* hexagon pixel takes every alpha 0..255; blocksfile keeps the image as read
SnapInit ==
    /\ B \in 1..MaxB
    /\ pat \in {<<a, b, c>> : a \in 0..255, b \in SnapInsideAlphas,
                              c \in SnapOutsideAlphas}
    /\ probe = 0
    /\ blocksfile = <<[w |-> 4 * B, h |-> 4 * B,
                       cells |-> [c \in {0} |-> PatternSprite(B, pat)]]>>
    /\ img = blocksfile[1]
    /\ rectsize = 4 * B
    /\ pc = "snap"
    /\ blockOffsets = << >>
    /\ opacity = << >>
    /\ transparency = << >>
    /\ terrain = FALSE
    /\ bcTex = FALSE
    /\ icTex = FALSE
    /\ recipeFails = FALSE
    /\ painted = FALSE
    /\ builds = 1
    /\ first = << >>
    /\ jobs = << >>
    /\ canvas = << >>
    /\ columns = << >>

SnapFirst ==
    /\ pc = "snap"
    /\ img' = retouchAlphas(img)
    /\ pc' = "snapped"
    /\ UNCHANGED <<rectsize, blockOffsets, opacity, transparency, blocksfile,
                   painted, inputs, builds, first, others>>

SnapAgain ==
    /\ pc = "snapped"
    /\ img' = retouchAlphas(img)
    /\ pc' = "resnapped"
    /\ UNCHANGED <<rectsize, blockOffsets, opacity, transparency, blocksfile,
                   painted, inputs, builds, first, others>>

SnapNext == SnapFirst \/ SnapAgain

SpecSnap == SnapInit /\ [][SnapNext]_vars

\* ---------------------------------------------- block images by rectangle

\* the pixels of img an ImageRect covers
RectPixels(r) ==
    {<<x, y>> : x \in r.x..(r.x + r.w - 1), y \in r.y..(r.y + r.h - 1)}

\* how far the second block image lies from the first: the next one, the ones
\* below to the left, straight below and below to the right
Strides == {1, 15, 16, 17}

\* two block images of different offsets are to be painted into img, the
\* first at any offset; neither is painted yet
RectsInit ==
    /\ B \in 1..MaxB
    /\ rectsize = 4 * B
    /\ probe \in 0..(NUMBLOCKIMAGES - 1)
    /\ \E d \in Strides :
           jobs = [j \in 1..2 |->
                     [offset |-> IF j = 1 THEN probe
                                          ELSE (probe + d) % NUMBLOCKIMAGES,
                      done |-> FALSE, pixels |-> {}]]
    /\ pc = "paint"
    /\ img = EmptyImage
    /\ blockOffsets = << >>
    /\ opacity = << >>
    /\ transparency = << >>
    /\ blocksfile = NoFile
    /\ terrain = TRUE
    /\ bcTex = FALSE
    /\ icTex = FALSE
    /\ pat = OpaquePattern
    /\ recipeFails = FALSE
    /\ painted = FALSE
    /\ builds = 1
    /\ first = << >>
    /\ canvas = << >>
    /\ columns = << >>

\* one block image is painted: every pixel of getRect(offset) is written
PaintRect(j) ==
    /\ pc = "paint"
    /\ ~jobs[j].done
    /\ jobs' = [jobs EXCEPT ![j].done = TRUE,
                            ![j].pixels = RectPixels(getRect(jobs[j].offset))]
    /\ UNCHANGED <<pc, rectsize, img, blockOffsets, opacity, transparency,
                   blocksfile, painted, inputs, builds, first, canvas, columns>>

\* the block images are painted in either order
RectsNext == \E j \in 1..2 : PaintRect(j)

SpecRects == RectsInit /\ [][RectsNext]_vars

\* ------------------------------------------------- faces of a block image

\* the largest B whose faces are painted
MaxFaceB == 3

\* the B of the header's drawings
DiagramB == 3

\* the header's hexagon for B = 3, row by row: the first column used, then how
\* many pixels of the N, the U and the W face follow
DiagramRows ==
    << <<5, 0, 2, 0>>, <<3, 0, 6, 0>>, <<1, 0, 10, 0>>, <<0, 1, 10, 1>>,
       <<0, 3, 6, 3>>, <<0, 5, 2, 5>>, <<0, 6, 0, 6>>, <<0, 6, 0, 6>>,
       <<0, 6, 0, 6>>, <<1, 5, 0, 5>>, <<3, 3, 0, 3>>, <<5, 1, 0, 1>> >>

\* the face the header's hexagon shows at column x of row y, "" outside it
DiagramFace(x, y) ==
    LET row == DiagramRows[y + 1]
        n == row[1] + row[2]
        u == n + row[3]
        w == u + row[4]
    IN  IF x < row[1] THEN ""
        ELSE IF x < n THEN "N"
        ELSE IF x < u THEN "U"
        ELSE IF x < w THEN "W"
        ELSE ""

Faces == {"U", "N", "W"}

\* the columns and rows of a texture resized to 2B x 2B
TexelsOf(b) == 0..(2 * b - 1)

\* where pixel r of column c of the texture goes on the U face: the columns
\* run down to the left, two pixels across for one down, even columns
\* stepping across first and odd columns stepping down first
FaceU(b, c, r) ==
    LET across == IF c % 2 = 0
                     THEN (IF r < 2 * b - 1 THEN r ELSE 2 * b - 2)
                     ELSE (IF r > 0 THEN r - 1 ELSE 0)
    IN  <<2 * b - 1 + c - across, c \div 2 + (r + 1) \div 2>>

\* the N face with every column one pixel lower than the one before
FaceN_steep(b, c, r) == <<c, b + c + r>>

\* on the N face: the columns stay upright, one pixel lower every two columns
FaceN(b, c, r) == <<c, b + (c + 1) \div 2 + r>>

\* on the W face: upright columns, one pixel higher every two columns
FaceW(b, c, r) == <<2 * b + c, b + (2 * b - c) \div 2 + r>>

\* where pixel r of column c of the texture goes on face f
FacePixel(b, f, c, r) ==
    IF f = "U" THEN FaceU(b, c, r)
    ELSE IF f = "N" THEN FaceN(b, c, r)
    ELSE FaceW(b, c, r)

\* the coordinates of pixel p of a 4B x 4B block image
PixelAt(b, p) == <<p % (4 * b), p \div (4 * b)>>

\* a new block image on which no face is painted yet
FacesInit ==
    /\ B \in 1..MaxFaceB
    /\ rectsize = 4 * B
    /\ canvas = [p \in PixelsOf(B) |-> {}]
    /\ columns = [f \in Faces |-> 0]
    /\ pc = "faces"
    /\ img = EmptyImage
    /\ blockOffsets = << >>
    /\ opacity = << >>
    /\ transparency = << >>
    /\ blocksfile = NoFile
    /\ terrain = TRUE
    /\ bcTex = FALSE
    /\ icTex = FALSE
    /\ probe = 1
    /\ pat = OpaquePattern
    /\ recipeFails = FALSE
    /\ painted = FALSE
    /\ builds = 1
    /\ first = << >>
    /\ jobs = << >>

\* the next column of the texture is painted onto face f; canvas records on
\* every pixel the texture pixels painted there
PaintColumn(f) ==
    /\ pc = "faces"
    /\ columns[f] < 2 * B
    /\ canvas' = [p \in PixelsOf(B) |->
                     canvas[p] \cup
                     {<<f, columns[f], r>> : r \in
                         {t \in TexelsOf(B) :
                             PixelAt(B, p) = FacePixel(B, f, columns[f], t)}}]
    /\ columns' = [columns EXCEPT ![f] = columns[f] + 1]
    /\ UNCHANGED <<pc, rectsize, img, blockOffsets, opacity, transparency,
                   blocksfile, painted, inputs, builds, first, jobs>>

\* the faces are painted in any order, each from its first column to its last
FacesNext == \E f \in Faces : PaintColumn(f)

SpecFaces == FacesInit /\ [][FacesNext]_vars

\* ------------------------------------------------------------------ claims

\* the offsets the lookup table holds
TableOffsets == {blockOffsets[i] : i \in DOMAIN blockOffsets}

\* rectangle r lies fully inside image im
RectInside(r, im) ==
    /\ r.x >= 0
    /\ r.y >= 0
    /\ r.x + r.w <= im.w
    /\ r.y + r.h <= im.h

\* C1: after a successful build, img is 16*4B wide and ceil(NUMBLOCKIMAGES/16)*4B
\* high, and for every block id 0..255 and block data 0..15 the rectangle
\* getRect(getOffset(id, data)) is ((offset mod 16)*4B, (offset div 16)*4B, 4B, 4B)
\* and lies fully inside img.
C1_RectInsideAtlas ==
    pc = "done" =>
        /\ img.w = 16 * 4 * B
        /\ img.h = (IF NUMBLOCKIMAGES % 16 = 0 THEN NUMBLOCKIMAGES \div 16
                    ELSE NUMBLOCKIMAGES \div 16 + 1) * 4 * B
        /\ \A id \in 0..255, data \in 0..15 :
            LET o == getOffset(id, data)
                r == getRect(o)
            IN  /\ r = [x |-> (o % 16) * 4 * B, y |-> (o \div 16) * 4 * B,
                        w |-> 4 * B, h |-> 4 * B]
                /\ RectInside(r, img)

\* a finished build whose table points a recognized block far down the atlas
C1_Witness ==
    /\ pc = "done"
    /\ B >= 2
    /\ getOffset(249, 0) = 671
    /\ RectInside(getRect(getOffset(249, 0)), img)
    /\ getRect(getOffset(249, 0)).y > 0

\* C2: every offset the lookup table holds or the catalog names is at least 0
\* and below NUMBLOCKIMAGES, so isOpaque and isTransparent index inside the
\* two flag vectors.
C2_OffsetsBelowNumBlockImages ==
    pc = "done" =>
        \A o \in TableOffsets \cup CatalogOffsets :
            /\ 0 <= o
            /\ o < NUMBLOCKIMAGES
            /\ o \in DOMAIN opacity
            /\ o \in DOMAIN transparency

\* C3: after any successful build, every block id/data pair the static mapping
\* does not list, and air (0, 0), has getOffset 0, and the block image at
\* offset 0 is fully transparent: isTransparent(0) and not isOpaque(0).
C3_DummyTransparent ==
    pc = "done" =>
        /\ \A id \in 0..255, data \in 0..15 :
            (CatalogEntry(id, data) = 0) => getOffset(id, data) = 0
        /\ getOffset(0, 0) = 0
        /\ \A p \in PixelsOf(B) : img.cells[0][p] = 0
        /\ isTransparent(0)
        /\ ~isOpaque(0)

\* the positions of create at which a step is still to run
StepsOfCreate ==
    {"create", "readPNG", "construct", "constructBC", "constructIC", "writePNG",
     "retouch", "check"}

\* C4: create fails only when terrain.png is missing or unreadable; with
\* terrain.png readable the build runs to success whatever mod textures are
\* missing, whichever recipe fails and whatever blocks-B.png is found.
C4_FailsOnlyWithoutStock ==
    /\ pc = "failed" => ~terrain
    /\ (terrain /\ pc # "done") => pc \in StepsOfCreate

\* a build that succeeded with both mod textures missing and a failing recipe
C4_Witness ==
    /\ pc = "done"
    /\ painted
    /\ terrain
    /\ ~bcTex
    /\ ~icTex
    /\ recipeFails

\* a block image with its hexagon retouched
SnappedSprite(sprite) ==
    [p \in DOMAIN sprite |->
        IF InHex(B, p) THEN RetouchAlpha(sprite[p]) ELSE sprite[p]]

\* the block image a build from the textures leaves at a terrain.png offset,
\* whatever mod textures are supplied
StockSprite(o) ==
    IF o \in StockPainted THEN SnappedSprite(PaintedSprite(o)) ELSE BlankSprite(B)

\* every pixel of the cell of offset o is transparent
CellBlank(o) == \A p \in PixelsOf(B) : img.cells[o][p] = 0

\* C5 as stated: with a mod texture omitted, every table entry of that mod is
\* the dummy offset 0, the build succeeds, and the terrain.png block images
\* and offsets are those of a build with the mod texture supplied.
C5_ModEntriesAtDummyOffset ==
    /\ pc = "failed" => ~terrain
    /\ (pc = "done" /\ painted) =>
        /\ ~bcTex => \A id \in 0..255, data \in 0..15 :
                        CatalogEntry(id, data) \in BCOffsets => getOffset(id, data) = 0
        /\ ~icTex => \A id \in 0..255, data \in 0..15 :
                        CatalogEntry(id, data) \in ICOffsets => getOffset(id, data) = 0
        /\ \A o \in StockOffsets : img.cells[o] = StockSprite(o)

\* C5 amended: with a mod texture omitted from a build painted from the
\* textures, the table still holds every entry's own catalog offset, every
\* pixel of the cells of that mod's offsets is transparent, the build
\* succeeds, and the terrain.png block images and offsets are those of a build
\* with the mod texture supplied.
C5_ModEntriesTransparent ==
    /\ pc = "failed" => ~terrain
    /\ (pc = "done" /\ painted) =>
        /\ \A id \in 0..255, data \in 0..15 :
            getOffset(id, data) = CatalogEntry(id, data)
        /\ ~bcTex => \A o \in BCOffsets : CellBlank(o)
        /\ ~icTex => \A o \in ICOffsets : CellBlank(o)
        /\ \A o \in StockOffsets : img.cells[o] = StockSprite(o)

\* a build without the Buildcraft texture: its table entry keeps its offset,
\* its cell is blank, stone is painted
C5_Witness ==
    /\ pc = "done"
    /\ painted
    /\ ~bcTex
    /\ icTex
    /\ getOffset(152, 0) = 525
    /\ CellBlank(525)
    /\ ~CellBlank(1)
    /\ ~CellBlank(640)

\* blocks-B.png is there and has the size for B and NUMBLOCKIMAGES
FileWellFormed ==
    /\ blocksfile # NoFile
    /\ blocksfile[1].w = 16 * 4 * B
    /\ blocksfile[1].h = NumRows * 4 * B

\* an image with the hexagons of its block images retouched
SnappedCells(im) ==
    [c \in DOMAIN im.cells |->
        IF c < NUMBLOCKIMAGES THEN SnappedSprite(im.cells[c]) ELSE im.cells[c]]

\* C6: the build first tries blocks-B.png: one of the right size is used
\* without painting from the textures; one of another size is a miss like an
\* absent one, never a failure, and the build goes on to paint from the
\* textures and to write the new blocks-B.png.
C6_PersistedAtlasFirst ==
    /\ [][pc = "readPNG" =>
            IF FileWellFormed
                THEN pc' = "retouch" /\ img' = blocksfile[1] /\ ~painted'
                ELSE pc' = "construct"]_vars
    /\ [][(painted' /\ ~painted) => (pc = "construct" /\ ~FileWellFormed)]_vars
    /\ []((pc = "done" /\ ~painted) =>
            (FileWellFormed /\ img.cells = SnappedCells(blocksfile[1])))
    /\ []((pc = "done" /\ painted) =>
            (FileWellFormed /\ img.cells = SnappedCells(blocksfile[1])))
    /\ [](pc = "failed" => (~terrain /\ ~painted))

\* a blocks-B.png of another size was found and the build went on to construct
C6_Witness ==
    /\ pc = "constructBC"
    /\ painted
    /\ blocksfile # NoFile
    /\ ~FileWellFormed

\* C7: the flags are computed after retouchAlphas, on the retouched alphas:
\* isOpaque(offset) iff every hexagon pixel of the retouched block image has
\* alpha 255, isTransparent(offset) iff every one has alpha 0, otherwise
\* neither; no block image is both opaque and transparent.
C7_FlagsFromSnappedAlphas ==
    pc = "done" =>
        LET hex == HexagonOf(B)
        IN  \A o \in DOMAIN opacity \cup DOMAIN transparency :
                LET before == blocksfile[1].cells[o]
                IN  /\ \A p \in hex : img.cells[o][p] = RetouchAlpha(before[p])
                    /\ isOpaque(o) <=> \A p \in hex : RetouchAlpha(before[p]) = 255
                    /\ isTransparent(o) <=> \A p \in hex : RetouchAlpha(before[p]) = 0
                    /\ ~(isOpaque(o) /\ isTransparent(o))

\* block images whose alphas only the retouch made 255 or 0 are flagged
C7_Witness ==
    /\ pc = "done"
    /\ \E o \in ProbeOffsets :
        /\ blocksfile[1].cells[o][2 * B - 1] = 246
        /\ isOpaque(o)
        /\ ~isTransparent(o)

\* C8: retouchAlphas sets every hexagon pixel with alpha < 10 to 0 and every
\* hexagon pixel with alpha > 245 to 255, and leaves every pixel with
\* 10 <= alpha <= 245, the values 10 and 245 included, unchanged.
C8_SnapThresholds ==
    pc = "snapped" =>
        \A p \in PixelsOf(B) :
            LET old == blocksfile[1].cells[0][p]
                new == img.cells[0][p]
            IN  /\ (InHex(B, p) /\ old < 10) => new = 0
                /\ (InHex(B, p) /\ old > 245) => new = 255
                /\ (old >= 10 /\ old <= 245) => new = old

\* the boundary alpha 245 was retouched beside a pixel pushed down to 0
C8_Witness ==
    /\ pc = "snapped"
    /\ blocksfile[1].cells[0][2 * B - 1] = 245
    /\ img.cells[0][2 * B - 1] = 245
    /\ blocksfile[1].cells[0][2 * B] = 0
    /\ blocksfile[1].cells[0][0] = 5
    /\ img.cells[0][2 * B] = 0

\* C9: running retouchAlphas twice leaves the alphas that running it once
\* leaves, for every alpha 0..255.
C9_SnapIdempotent ==
    pc = "resnapped" => img.cells = SnappedCells(blocksfile[1])

\* retouchAlphas ran twice over an alpha that the first run changed
C9_Witness ==
    /\ pc = "resnapped"
    /\ blocksfile[1].cells[0][2 * B - 1] = 250
    /\ img.cells[0][2 * B - 1] = 255

\* the flags of offset o are those of its block image with every pixel
\* outside the hexagon made transparent
FlagsIgnoreOutside(o) ==
    LET inside == [p \in PixelsOf(B) |->
                      IF InHex(B, p) THEN img.cells[o][p] ELSE 0]
    IN  /\ isOpaque(o) <=> \A p \in PixelsOf(B) : InHex(B, p) => inside[p] = 255
        /\ isTransparent(o) <=> \A p \in PixelsOf(B) : inside[p] = 0

\* C10 as stated: after any successful build, painted from the textures or
\* read from a blocks-B.png of any content, every pixel outside the hexagon
\* of every block image has alpha 0, and those pixels play no part in the flags.
C10_OutsideHexagonTransparent ==
    pc = "done" =>
        \A o \in 0..(NUMBLOCKIMAGES - 1) :
            /\ \A p \in PixelsOf(B) : ~InHex(B, p) => img.cells[o][p] = 0
            /\ FlagsIgnoreOutside(o)

\* C10 amended: after a successful build painted from the textures every
\* pixel outside the hexagon of every block image has alpha 0 (a blocks-B.png
\* that is read is used as it is); in both cases those pixels play no part
\* in the flags.
C10_OutsideTransparentWhenPainted ==
    pc = "done" =>
        \A o \in 0..(NUMBLOCKIMAGES - 1) :
            /\ painted => \A p \in PixelsOf(B) : ~InHex(B, p) => img.cells[o][p] = 0
            /\ FlagsIgnoreOutside(o)

\* a block image read from blocks-B.png with alpha outside its hexagon is
\* flagged by its hexagon alone
C10_Witness ==
    /\ pc = "done"
    /\ ~painted
    /\ img.cells[probe][0] = 200
    /\ isOpaque(probe)

\* C11: a second create with the same B and the same textures, finding the
\* blocks-B.png the first one wrote, ends with the same pixels in img, the
\* same blockOffsets, the same opacity and the same transparency as the first;
\* blockOffsets is the catalog's table whether img was read or painted.
C11_SecondBuildIdentical ==
    /\ (builds = 2 /\ pc = "done") =>
           /\ img = first[1].img
           /\ blockOffsets = first[1].blockOffsets
           /\ opacity = first[1].opacity
           /\ transparency = first[1].transparency
           /\ ~painted
    /\ pc = "done" =>
           \A blockID \in 0..(NumBlockIDs - 1) :
               \A blockData \in 0..(NumBlockData - 1) :
                   getOffset(blockID, blockData) = CatalogEntry(blockID, blockData)

\* the first create painted img and wrote blocks-B.png, with a texture whose
\* alphas retouchAlphas changes and with IC2 block images beyond the flag
\* vectors; the second create read that file and is done
C11_Witness ==
    /\ builds = 2
    /\ pc = "done"
    /\ first[1].painted
    /\ ~painted
    /\ icTex
    /\ pat[1] = 246
    /\ blocksfile[1] # img
    /\ img = first[1].img
    /\ \E p \in PixelsOf(B) : img.cells[NUMBLOCKIMAGES][p] # 0

\* two ImageRects have a pixel in common
SharePixel(r1, r2) ==
    /\ r1.x < r2.x + r2.w
    /\ r2.x < r1.x + r1.w
    /\ r1.y < r2.y + r2.h
    /\ r2.y < r1.y + r1.h

\* C12: getRect(o1) and getRect(o2) have no pixel in common for any two
\* different offsets below NUMBLOCKIMAGES, so block images of different
\* offsets painted in any order write no pixel of img twice, and a pixel
\* written for an offset lies in that offset's cell.
C12_RectsDisjoint ==
    pc = "paint" =>
        /\ \A o2 \in 0..(NUMBLOCKIMAGES - 1) :
               o2 # probe => ~SharePixel(getRect(probe), getRect(o2))
        /\ jobs[1].pixels \cap jobs[2].pixels = {}
        /\ \A j \in 1..2 : \A px \in jobs[j].pixels :
               (px[2] \div rectsize) * RowLength + (px[1] \div rectsize)
                   = jobs[j].offset

\* both block images are painted, side by side: the last of a row of 16 and
\* the first of the next row, or two that touch along a whole edge
C12_Witness ==
    /\ pc = "paint"
    /\ jobs[1].done
    /\ jobs[2].done
    /\ jobs[1].offset % RowLength = RowLength - 1
    /\ jobs[2].offset = jobs[1].offset + 1
    /\ Cardinality(jobs[1].pixels) = rectsize * rectsize
    /\ Cardinality(jobs[2].pixels) = rectsize * rectsize

\* every column of every face is painted
AllFacesPainted == \A f \in Faces : columns[f] = 2 * B

\* the faces painted on pixel p
FacesAt(p) == {t[1] : t \in canvas[p]}

\* C13: the pixels the U, N and W faces are painted on are pairwise disjoint,
\* no pixel is painted twice, every painted pixel lies inside the hexagon of
\* the 4B x 4B block image and, once the three faces are painted, every pixel
\* of the hexagon is painted; for B = 3 each pixel carries the face drawn in
\* the header.
C13_FacesPartitionHexagon ==
    pc = "faces" =>
        \A p \in PixelsOf(B) :
            LET x == PixelAt(B, p)[1]
                y == PixelAt(B, p)[2]
            IN  /\ Cardinality(canvas[p]) <= 1
                /\ canvas[p] # {} => InHexagon(B, x, y)
                /\ (AllFacesPainted /\ InHexagon(B, x, y)) => canvas[p] # {}
                /\ (AllFacesPainted /\ B = DiagramB) =>
                       FacesAt(p) = (IF DiagramFace(x, y) = "" THEN {}
                                     ELSE {DiagramFace(x, y)})

\* the three faces of the block image of the header's drawings are painted:
\* the top left pixel is left alone, and U, N and W meet in the middle
C13_Witness ==
    /\ pc = "faces"
    /\ B = DiagramB
    /\ AllFacesPainted
    /\ canvas[0] = {}
    /\ FacesAt(5 * 4 * B + 6) = {"U"}
    /\ FacesAt(6 * 4 * B + 5) = {"N"}
    /\ FacesAt(6 * 4 * B + 6) = {"W"}

====
